---- MODULE Spec2Model ----
(***************************************************************************)
(* A model of orchestrator-agent: the osagent package (command execution,  *)
(* output tokenizing, logical volumes, mounts, MySQL service control) and  *)
(* the http package (token validation and the registered handlers).        *)
(*                                                                         *)
(* A Go string is a sequence of one-character strings: "ab" is <<"a","b">> *)
(* and "" is <<>>.  A Go error is the string "nil" or an error name.       *)
(***************************************************************************)
EXTENDS Integers, Sequences, FiniteSets, TLC

VARIABLES
    fn,         \* text machine: the function applied last ("none" at first)
    arg,        \* text machine: the arguments it was applied to
    ret,        \* text machine: what it returned
    mountPoint, \* config.Config.SnapshotMountPoint
    missing,    \* the programs that are not installed on the host
    mtab,       \* /etc/mtab: the rows of the mounted file systems, oldest first
    mysqlUp,    \* whether the MySQL service runs
    last,       \* the last HTTP request, what it ran and what it answered
    trip        \* how far the requests so far are into mount, look, unmount, look

textVars == <<fn, arg, ret>>
hostVars == <<mountPoint, missing, mtab, mysqlUp, last, trip>>
vars == <<fn, arg, ret, mountPoint, missing, mtab, mysqlUp, last, trip>>

\* v evaluated once and handed to Op: the LET of a value that is used many times
Bind(v, Op(_)) == CHOOSE y \in {Op(x) : x \in {v}} : TRUE

NL == "\n"
WS == {" ", "\t"}
Nil == "nil"

(***************************************************************************)
(* strings                                                                 *)
(***************************************************************************)

\* strings.Contains(s, sub)
Contains(s, sub) ==
    \E i \in 0..(Len(s) - Len(sub)) : SubSeq(s, i + 1, i + Len(sub)) = sub

\* strings.Trim(s, cutset) for a one-character cutset: every leading and every
\* trailing occurrence of c is removed
RECURSIVE TrimLeft(_, _)
TrimLeft(s, c) ==
    IF s # <<>> /\ Head(s) = c THEN TrimLeft(Tail(s), c) ELSE s

RECURSIVE TrimRight(_, _)
TrimRight(s, c) ==
    IF s # <<>> /\ s[Len(s)] = c THEN TrimRight(SubSeq(s, 1, Len(s) - 1), c) ELSE s

Trim(s, c) == TrimRight(TrimLeft(s, c), c)

\* strings.Split(s, sep) for a one-character sep: Count(s, sep) + 1 pieces
RECURSIVE Split(_, _)
Split(s, c) ==
    IF \E i \in 1..Len(s) : s[i] = c
    THEN LET i == CHOOSE k \in 1..Len(s) : s[k] = c /\ \A j \in 1..(k - 1) : s[j] # c
         IN  <<SubSeq(s, 1, i - 1)>> \o Split(SubSeq(s, i + 1, Len(s)), c)
    ELSE <<s>>

\* regexp.MustCompile(`[ \t]+`).Split(s, -1): the pieces between the maximal runs
\* of blanks; a leading run gives a first piece "", a trailing run a last piece "",
\* and "" gives the one piece ""
RECURSIVE RegexpSplit(_)
RegexpSplit(s) ==
    IF \E i \in 1..Len(s) : s[i] \in WS
    THEN LET i == CHOOSE k \in 1..Len(s) : s[k] \in WS /\ \A j \in 1..(k - 1) : s[j] \notin WS
             rest == SubSeq(s, i + 1, Len(s))
             more == IF \E k \in 1..Len(rest) : rest[k] \notin WS
                     THEN LET j == CHOOSE k \in 1..Len(rest) :
                                      rest[k] \notin WS /\ \A m \in 1..(k - 1) : rest[m] \in WS
                          IN  SubSeq(rest, j, Len(rest))
                     ELSE <<>>
         IN  <<SubSeq(s, 1, i - 1)>> \o RegexpSplit(more)
    ELSE <<s>>

(***************************************************************************)
(* osagent: the output tokenizer                                           *)
(***************************************************************************)

\* the values the operations return, each under the name of its Go type
AsHostname(v) == [Hostname |-> v]
AsVolumes(v) == [LogicalVolumes |-> v]
AsMount(v) == [Mount |-> v]
AsBytes(v) == [Bytes |-> v]
AsHosts(v) == [Hosts |-> v]
AsBool(v) == [Bool |-> v]
AsLines(v) == [Lines |-> v]
AsTokens(v) == [Tokens |-> v]
Nothing == [Nothing |-> TRUE]

\* the (value, error) pair a Go function returns
Pair(v, e) == [val |-> v, err |-> e, panic |-> FALSE]
\* a run-time panic (index out of range) instead of a return
Panic == [val |-> <<>>, err |-> Nil, panic |-> TRUE]

\* a variant that cuts one trailing newline only (strings.TrimSuffix)
outputLines_TrimSuffix(commandOutput, err) ==
    IF err # Nil
    THEN Pair(<<>>, err)
    ELSE Pair(Split(IF commandOutput # <<>> /\ commandOutput[Len(commandOutput)] = NL
                    THEN SubSeq(commandOutput, 1, Len(commandOutput) - 1)
                    ELSE commandOutput, NL), err)

outputLines(commandOutput, err) ==
    IF err # Nil
    THEN Pair(<<>>, err)
    ELSE Pair(Split(Trim(commandOutput, NL), NL), err)

outputTokens(commandOutput, err) ==
    Bind(outputLines(commandOutput, err), LAMBDA lines :
        IF lines.err # Nil
        THEN Pair(<<>>, lines.err)
        ELSE Pair([i \in 1..Len(lines.val) |-> RegexpSplit(lines.val[i])], lines.err))

(***************************************************************************)
(* float64 values and strconv.ParseFloat                                   *)
(*                                                                         *)
(* A finite float is n / 10^s, kept exact (the rounding to 32 bits moves   *)
(* none of the modelled fields across 100); k tells it from NaN, +Inf and  *)
(* -Inf.                                                                   *)
(***************************************************************************)

Num(n, s) == [k |-> "num", n |-> n, s |-> s]
NaN == [k |-> "nan", n |-> 0, s |-> 0]
PosInf == [k |-> "posinf", n |-> 0, s |-> 0]
NegInf == [k |-> "neginf", n |-> 0, s |-> 0]
Zero == Num(0, 0)

RECURSIVE Pow10(_)
Pow10(s) == IF s = 0 THEN 1 ELSE 10 * Pow10(s - 1)

\* x >= y and x < y of IEEE 754: both false when either is NaN
FGe(x, y) ==
    CASE x.k = "nan" \/ y.k = "nan" -> FALSE
      [] x.k = "posinf" \/ y.k = "neginf" -> TRUE
      [] x.k = "neginf" \/ y.k = "posinf" -> FALSE
      [] OTHER -> x.n * Pow10(y.s) >= y.n * Pow10(x.s)

FLt(x, y) ==
    CASE x.k = "nan" \/ y.k = "nan" -> FALSE
      [] x.k = "posinf" \/ y.k = "neginf" -> FALSE
      [] x.k = "neginf" \/ y.k = "posinf" -> TRUE
      [] OTHER -> x.n * Pow10(y.s) < y.n * Pow10(x.s)

DigitChars == <<"0", "1", "2", "3", "4", "5", "6", "7", "8", "9">>
IsDigit(c) == \E i \in 1..Len(DigitChars) : DigitChars[i] = c
DigitVal(c) == (CHOOSE i \in 1..Len(DigitChars) : DigitChars[i] = c) - 1

RECURSIVE DigitsVal(_)
DigitsVal(t) ==
    IF t = <<>> THEN 0 ELSE 10 * DigitsVal(SubSeq(t, 1, Len(t) - 1)) + DigitVal(t[Len(t)])

\* the same number without the trailing zeros of its fraction
RECURSIVE Norm(_, _)
Norm(n, s) == IF s > 0 /\ n % 10 = 0 THEN Norm(n \div 10, s - 1) ELSE Num(n, s)

IsDot(c) == c = "."
NotDot(c) == c # "."

\* strconv.ParseFloat(t, 32) on the decimal forms [+-]digits[.digits] and on
\* "nan": the value and a nil error, or 0 and a syntax error
ParseFloat(t) ==
    LET signed == t # <<>> /\ Head(t) \in {"+", "-"}
        body == IF signed THEN Tail(t) ELSE t
        digits == SelectSeq(body, NotDot)
        dots == Len(SelectSeq(body, IsDot))
        frac == IF dots = 1
                THEN Len(body) - (CHOOSE i \in 1..Len(body) : body[i] = ".")
                ELSE 0
        wellFormed == /\ digits # <<>>
                      /\ dots <= 1
                      /\ \A i \in 1..Len(digits) : IsDigit(digits[i])
        mag == DigitsVal(digits)
    IN  IF t \in {<<"n", "a", "n">>, <<"N", "a", "N">>}
        THEN Pair(NaN, Nil)
        ELSE IF wellFormed
             THEN Pair(Norm(IF signed /\ Head(t) = "-" THEN 0 - mag ELSE mag, frac), Nil)
             ELSE Pair(Zero, "strconv.ParseFloat: invalid syntax")

(***************************************************************************)
(* osagent: logical volumes                                                *)
(***************************************************************************)

\* a variant that lets a snapshot at exactly 100.0 pass (> for >=)
IsSnapshotValid_Above(this) ==
    IF ~this.IsSnapshot
    THEN FALSE
    ELSE IF FGe(this.SnapshotPercent, Num(100, 0)) /\ this.SnapshotPercent # Num(100, 0)
         THEN FALSE
         ELSE TRUE

IsSnapshotValid(this) ==
    IF ~this.IsSnapshot
    THEN FALSE
    ELSE IF FGe(this.SnapshotPercent, Num(100, 0)) THEN FALSE ELSE TRUE

\* the entry LogicalVolumes builds from one row of tokens; Go's lineTokens[1..4]
\* are the second to fifth tokens
RowVolume(lineTokens) ==
    Bind(ParseFloat(lineTokens[5]), LAMBDA pct :
        [Name |-> lineTokens[2],
         GroupName |-> lineTokens[3],
         Path |-> lineTokens[4],
         IsSnapshot |-> (pct.err = Nil),
         SnapshotPercent |-> pct.val])

\* LogicalVolumes from the output and error of its lvs command on: a row of fewer
\* than five tokens ends the call in an index-out-of-range panic
LogicalVolumesFrom(output, err, filterPattern) ==
    LET Matches(lv) == Contains(lv.Name, filterPattern)
    IN  Bind(outputTokens(output, err), LAMBDA tokens :
            IF tokens.err # Nil
            THEN Pair(<<>>, tokens.err)
            ELSE IF \E i \in 1..Len(tokens.val) : Len(tokens.val[i]) < 5
                 THEN Panic
                 ELSE Pair(SelectSeq([i \in 1..Len(tokens.val) |-> RowVolume(tokens.val[i])],
                                     Matches),
                           Nil))

(***************************************************************************)
(* The text machine: one call of one of the pure functions, on inputs      *)
(* drawn from bounded sets; the call is recorded.  The functions keep no   *)
(* state, so one call from the initial state is every call.                *)
(***************************************************************************)

MaxLen == 4
MaxRows == 2

TextChars == {"a", " ", NL}
Bytes == UNION {[1..n -> TextChars] : n \in 0..MaxLen}
Errs == {Nil, "exit status 1"}

LVNames == {<<"a">>, <<"a", "b">>, <<"b">>}
Patterns == {<<>>, <<"a">>, <<"b">>, <<"b", "a">>}
PctFields ==
    {<<>>, <<"0">>, <<"9", "9", ".", "9">>, <<"1", "0", "0", ".", "0">>,
     <<"n", "a", "n">>, <<"x">>}

\* what lvs knows of one volume: its name and its snap_percent column, which is
\* printed (possibly blank, then padded by a blank) or, present = FALSE, left out
\* with nothing after the path
LvsRows == [name : LVNames, path : {<<"p">>}, present : BOOLEAN, pct : PctFields]
RowSeqs == UNION {[1..n -> {r \in LvsRows : r.present \/ r.pct = <<>>}] : n \in 0..MaxRows}

\* one line of `lvs --noheading -o lv_name,vg_name,lv_path,snap_percent`: lvs
\* indents every line by two blanks
LvsLine(r) ==
    <<" ", " ">> \o r.name \o <<" ", "g", " ">> \o r.path
        \o (IF r.present THEN <<" ">> \o r.pct ELSE <<>>)

RECURSIVE LvsOutput(_)
LvsOutput(rows) ==
    IF rows = <<>> THEN <<>> ELSE LvsLine(Head(rows)) \o <<NL>> \o LvsOutput(Tail(rows))

FloatSamples ==
    {Num(0 - 1, 0), Zero, Num(999, 1), Num(100, 0), Num(1001, 1), NaN, PosInf, NegInf}

\* the results r of a call, as the text machine records them
Returned(As(_), r) == [val |-> As(r.val), err |-> r.err, panic |-> r.panic]

TextInit == fn = "none" /\ arg = Nothing /\ ret = Returned(AsBool, Pair(FALSE, Nil))

\* the host at rest, for the text machine
HostIdle ==
    /\ mountPoint = <<>>
    /\ missing = {}
    /\ mtab = <<>>
    /\ mysqlUp = FALSE
    /\ last = Nothing
    /\ trip = Nothing

CallOutputLines ==
    /\ fn = "none"
    /\ UNCHANGED hostVars
    /\ \E out \in Bytes, e \in Errs :
        /\ fn' = "outputLines"
        /\ arg' = [commandOutput |-> out, err |-> e]
        /\ ret' = Returned(AsLines, outputLines(out, e))

CallOutputTokens ==
    /\ fn = "none"
    /\ UNCHANGED hostVars
    /\ \E out \in Bytes, e \in Errs :
        /\ fn' = "outputTokens"
        /\ arg' = [commandOutput |-> out, err |-> e]
        /\ ret' = Returned(AsTokens, outputTokens(out, e))

CallLogicalVolumes ==
    /\ fn = "none"
    /\ UNCHANGED hostVars
    /\ \E rows \in RowSeqs, e \in Errs, pat \in Patterns :
        /\ fn' = "LogicalVolumes"
        /\ arg' = [rows |-> rows, err |-> e, filterPattern |-> pat]
        /\ ret' = Returned(AsVolumes,
                           LogicalVolumesFrom(IF e = Nil THEN LvsOutput(rows) ELSE <<>>, e, pat))

CallIsSnapshotValid ==
    /\ fn = "none"
    /\ UNCHANGED hostVars
    /\ \E snap \in BOOLEAN, pct \in FloatSamples :
        /\ fn' = "IsSnapshotValid"
        /\ arg' = [Name |-> <<"a">>, GroupName |-> <<"g">>, Path |-> <<"p">>,
                   IsSnapshot |-> snap, SnapshotPercent |-> pct]
        /\ ret' = Returned(AsBool, Pair(IsSnapshotValid(arg'), Nil))

TextNext ==
    \/ CallOutputLines
    \/ CallOutputTokens
    \/ CallLogicalVolumes
    \/ CallIsSnapshotValid

InitText == TextInit /\ HostIdle

SpecText == InitText /\ [][TextNext]_vars

(***************************************************************************)
(* Properties of the text machine                                          *)
(***************************************************************************)

NoNewline(line) == \A i \in 1..Len(line) : line[i] # NL

\* the lines joined by single newlines
RECURSIVE JoinLines(_)
JoinLines(lines) ==
    IF Len(lines) <= 1
    THEN (IF lines = <<>> THEN <<>> ELSE lines[1])
    ELSE lines[1] \o <<NL>> \o JoinLines(Tail(lines))

Newlines(n) == [i \in 1..n |-> NL]

\* s without one trailing newline, if it has one
WithoutOneTrailingNewline(s) ==
    IF s # <<>> /\ s[Len(s)] = NL THEN SubSeq(s, 1, Len(s) - 1) ELSE s

\* core is s without all its leading and all its trailing newlines
IsNewlineTrimmed(s, core) ==
    /\ core = <<>> \/ (core[1] # NL /\ core[Len(core)] # NL)
    /\ \E i, j \in 0..Len(s) : s = Newlines(i) \o core \o Newlines(j)

\* both tokenizer functions hand a non-nil upstream error back with a nil result
ErrorPropagated ==
    /\ fn = "outputLines" /\ arg.err # Nil
           => ret.val.Lines = <<>> /\ ret.err = arg.err /\ ~ret.panic
    /\ fn = "outputTokens" /\ arg.err # Nil
           => ret.val.Tokens = <<>> /\ ret.err = arg.err /\ ~ret.panic

\* C10 as stated: outputLines, given a nil error, removes exactly one trailing
\* newline and splits the rest on newline (empty output gives the one line "");
\* given a non-nil error, outputLines and outputTokens return it without parsing.
C10_OneTrailingNewline ==
    /\ ErrorPropagated
    /\ fn = "outputLines" /\ arg.err = Nil
           => /\ ret.err = Nil
              /\ Len(ret.val.Lines) >= 1
              /\ \A i \in 1..Len(ret.val.Lines) : NoNewline(ret.val.Lines[i])
              /\ JoinLines(ret.val.Lines) = WithoutOneTrailingNewline(arg.commandOutput)

\* C10 amended: outputLines, given a nil error, removes every leading and every
\* trailing newline and splits the rest on newline into an ordered sequence (empty
\* output gives the one line ""); given a non-nil error, outputLines and
\* outputTokens return that error without parsing.
C10_AllOuterNewlines ==
    /\ ErrorPropagated
    /\ fn = "outputLines" /\ arg.err = Nil
           => /\ ret.err = Nil
              /\ Len(ret.val.Lines) >= 1
              /\ \A i \in 1..Len(ret.val.Lines) : NoNewline(ret.val.Lines[i])
              /\ IsNewlineTrimmed(arg.commandOutput, JoinLines(ret.val.Lines))
              /\ (arg.commandOutput = <<>> => ret.val.Lines = << <<>> >>)

C10_Witness ==
    /\ fn = "outputLines"
    /\ arg = [commandOutput |-> <<NL, "a", NL, NL>>, err |-> Nil]
    /\ ret.val.Lines = << <<"a">> >>

\* a float as the claims name it
Hundred == Num(100, 0)

KeptRows ==
    LET Matches(r) == Contains(r.name, arg.filterPattern)
    IN  SelectSeq(arg.rows, Matches)

\* whether the snap_percent field of a row parses as a float
FieldParses(r) == r.present /\ ParseFloat(r.pct).err = Nil

\* C6: for every row LogicalVolumes parses, IsSnapshot is true iff the
\* snapshot-percent field parses as a float; an unparsable field (blank or absent
\* included) gives IsSnapshot = false and SnapshotPercent = 0, and never makes
\* LogicalVolumes return an error or abort.
C6_UnparsableIsNotSnapshot ==
    fn = "LogicalVolumes" /\ arg.err = Nil /\ arg.rows # <<>>
        => /\ ~ret.panic
           /\ ret.err = Nil
           /\ Len(ret.val.LogicalVolumes) = Len(KeptRows)
           /\ \A i \in 1..Len(KeptRows) :
                  /\ ret.val.LogicalVolumes[i].IsSnapshot = FieldParses(KeptRows[i])
                  /\ ~FieldParses(KeptRows[i]) => ret.val.LogicalVolumes[i].SnapshotPercent = Zero

\* C7: LogicalVolumes returns, in output order, exactly the parsed entries whose
\* Name contains the pattern; with an empty pattern every parsed entry; and when
\* lvs succeeds with zero rows of output, an empty sequence and a nil error.
C7_FilteredInOrder ==
    fn = "LogicalVolumes" /\ arg.err = Nil /\ (\A i \in 1..Len(arg.rows) : arg.rows[i].present)
        => /\ ~ret.panic
           /\ ret.err = Nil
           /\ Len(ret.val.LogicalVolumes) = Len(KeptRows)
           /\ \A i \in 1..Len(KeptRows) : ret.val.LogicalVolumes[i].Name = KeptRows[i].name
           /\ (arg.filterPattern = <<>> => Len(ret.val.LogicalVolumes) = Len(arg.rows))
           /\ (arg.rows = <<>> => ret.val.LogicalVolumes = <<>>)

(***************************************************************************)
(* The host: the programs the agent runs and what they do to /etc/mtab and *)
(* to the MySQL service.  A command is its program name and its arguments. *)
(***************************************************************************)

MaxMounts == 2

\* the logical volumes of the host: a volume and a snapshot of it
Volumes ==
    <<[name |-> <<"a">>, path |-> <<"/", "v">>, present |-> TRUE, pct |-> <<>>],
      [name |-> <<"a", "b">>, path |-> <<"/", "u">>, present |-> TRUE,
       pct |-> <<"9", "9", ".", "9">>]>>

MountPoints == {<<"/", "s">>, <<"/", "t">>}
\* a file system mounted before the agent started
OtherMount == [device |-> <<"/", "w">>, path |-> <<"/", "s", "2">>, fs |-> <<"x">>]
Dirs == MountPoints \cup {OtherMount.path}

MtabFile == <<"/etc/mtab">>
LvsOptions == << <<"--noheading">>, <<"-o">>, <<"lv_name,vg_name,lv_path,snap_percent">> >>

\* one line of /etc/mtab: device, mount point, type, options, dump, pass
MtabLine(row) ==
    row.device \o <<" ">> \o row.path \o <<" ">> \o row.fs \o <<" ", "o", " ", "0", " ", "0">>

RECURSIVE MtabText(_)
MtabText(rows) ==
    IF rows = <<>> THEN <<>> ELSE MtabLine(Head(rows)) \o <<NL>> \o MtabText(Tail(rows))

Done(out, err, w) == [out |-> out, err |-> err, w |-> w]

\* grep PATTERN /etc/mtab: the lines that contain the pattern anywhere, and exit
\* status 1 when there is none
ExecGrep(w, args) ==
    LET Hit(row) == Contains(MtabLine(row), args[1])
        hits == IF Len(args) = 2 THEN SelectSeq(w.mtab, Hit) ELSE <<>>
    IN  IF hits = <<>> THEN Done(<<>>, "exit status 1", w) ELSE Done(MtabText(hits), Nil, w)

\* lvs [VOLUME]: the rows of all volumes, or of the one named; exit status 5 for a
\* name that is no volume
ExecLvs(w, args) ==
    LET Named(r) == r.path = args[Len(args)] \/ r.name = args[Len(args)]
        rows == IF Len(args) = Len(LvsOptions) THEN Volumes ELSE SelectSeq(Volumes, Named)
    IN  IF rows = <<>> /\ Len(args) > Len(LvsOptions)
        THEN Done(<<>>, "exit status 5", w)
        ELSE Done(LvsOutput(rows), Nil, w)

\* mount DEVICE DIR: a new last row of /etc/mtab, when the device is a volume that
\* is not mounted on DIR yet
ExecMount(w, args) ==
    IF /\ Len(args) = 2
       /\ \E i \in 1..Len(Volumes) : Volumes[i].path = args[1]
       /\ ~\E i \in 1..Len(w.mtab) : w.mtab[i].device = args[1] /\ w.mtab[i].path = args[2]
    THEN Done(<<>>, Nil,
              [w EXCEPT !.mtab = Append(@, [device |-> args[1], path |-> args[2], fs |-> <<"x">>])])
    ELSE Done(<<>>, "exit status 32", w)

\* umount DIR: the newest row of DIR leaves /etc/mtab
ExecUmount(w, args) ==
    IF Len(args) = 1 /\ \E i \in 1..Len(w.mtab) : w.mtab[i].path = args[1]
    THEN LET top == CHOOSE i \in 1..Len(w.mtab) :
                        /\ w.mtab[i].path = args[1]
                        /\ \A j \in (i + 1)..Len(w.mtab) : w.mtab[j].path # args[1]
         IN  Done(<<>>, Nil,
                  [w EXCEPT !.mtab = SubSeq(@, 1, top - 1) \o SubSeq(@, top + 1, Len(@))])
    ELSE Done(<<>>, "exit status 32", w)

\* du -sb DIR: the size, a tab and the directory
ExecDu(w, args) ==
    IF Len(args) = 2 /\ args[2] \in Dirs
    THEN Done(<<"4", "2", "\t">> \o args[2] \o <<NL>>, Nil, w)
    ELSE Done(<<>>, "exit status 1", w)

\* the service script: status exits 0 iff MySQL runs
ExecService(w, args) ==
    CASE args = << <<"status">> >> ->
             Done(<<>>, IF w.mysqlUp THEN Nil ELSE "exit status 3", w)
      [] args = << <<"start">> >> -> Done(<<>>, Nil, [w EXCEPT !.mysqlUp = TRUE])
      [] args = << <<"stop">> >> -> Done(<<>>, Nil, [w EXCEPT !.mysqlUp = FALSE])
      [] OTHER -> Done(<<>>, "exit status 2", w)

\* exec.Command(name, args...).Output(): a program that is not installed cannot
\* be started
Exec(w, cmd) ==
    IF cmd.name \in missing
    THEN Done(<<>>, "executable file not found in $PATH", w)
    ELSE CASE cmd.name = "grep" -> ExecGrep(w, cmd.args)
           [] cmd.name = "lvs" -> ExecLvs(w, cmd.args)
           [] cmd.name = "mount" -> ExecMount(w, cmd.args)
           [] cmd.name = "umount" -> ExecUmount(w, cmd.args)
           [] cmd.name = "du" -> ExecDu(w, cmd.args)
           [] cmd.name = "service" -> ExecService(w, cmd.args)
           [] cmd.name = "hosts" -> Done(<<"h", NL, "k", NL>>, Nil, w)
           [] OTHER -> Done(<<>>, "executable file not found in $PATH", w)

(***************************************************************************)
(* osagent on the host.  An operation returns its Go results (val, err),   *)
(* whether it panicked, the host it leaves (w) and the commands it ran.    *)
(***************************************************************************)

Text(name, args) == [name |-> name, args |-> args]
NonEmpty(word) == word # <<>>

\* the words between the runs of blanks: an empty argument leaves no word
commandSplit(commandText) ==
    [name |-> commandText.name, args |-> SelectSeq(commandText.args, NonEmpty)]

commandOutput(w, commandText) ==
    Bind(commandSplit(commandText), LAMBDA cmd :
        Bind(Exec(w, cmd), LAMBDA r :
            [out |-> IF r.err # Nil THEN <<>> ELSE r.out,
             err |-> r.err,
             w |-> r.w,
             ran |-> <<[name |-> cmd.name, args |-> cmd.args, err |-> r.err]>>]))

Result(v, e, pan, w, ran) == [val |-> v, err |-> e, panic |-> pan, w |-> w, ran |-> ran]

LogicalVolumes(w, volumeName, filterPattern) ==
    Bind(commandOutput(w, Text("lvs", LvsOptions \o <<volumeName>>)), LAMBDA c :
        Bind(LogicalVolumesFrom(c.out, c.err, filterPattern), LAMBDA r :
            Result(r.val, r.err, r.panic, c.w, c.ran)))

GetLogicalVolumePath(w, volumeName) ==
    Bind(LogicalVolumes(w, volumeName, <<>>), LAMBDA r :
        IF r.panic
        THEN Result(<<>>, Nil, TRUE, r.w, r.ran)
        ELSE IF r.err = Nil /\ Len(r.val) > 0
             THEN Result(r.val[1].Path, r.err, FALSE, r.w, r.ran)
             ELSE Result(<<>>, "logical volume not found", FALSE, r.w, r.ran))

\* strconv.ParseInt(t, 10, 0) on [+-]digits
ParseInt(t) ==
    LET signed == t # <<>> /\ Head(t) \in {"+", "-"}
        digits == IF signed THEN Tail(t) ELSE t
    IN  IF digits # <<>> /\ \A i \in 1..Len(digits) : IsDigit(digits[i])
        THEN Pair(IF signed /\ Head(t) = "-" THEN 0 - DigitsVal(digits) ELSE DigitsVal(digits), Nil)
        ELSE Pair(0, "strconv.ParseInt: invalid syntax")

DiskUsage(w, path) ==
    Bind(commandOutput(w, Text("du", << <<"-sb">>, path >>)), LAMBDA c :
        Bind(outputTokens(c.out, c.err), LAMBDA tokens :
            IF tokens.err # Nil
            THEN Result(0, tokens.err, FALSE, c.w, c.ran)
            ELSE Bind(ParseInt(tokens.val[1][1]), LAMBDA n :
                     Result(n.val, n.err, FALSE, c.w, c.ran))))

Unmounted(mountPoint_) ==
    [Path |-> mountPoint_, Device |-> <<>>, LVPath |-> <<>>, FileSystem |-> <<>>,
     IsMounted |-> FALSE, DiskUsage |-> 0]

\* the loop of GetMount over the rows grep found: every row overwrites the mount
RECURSIVE GetMountRows(_, _, _, _)
GetMountRows(w, mount, tokens, mountPoint_) ==
    IF tokens = <<>>
    THEN Result(mount, Nil, FALSE, w, <<>>)
    ELSE Bind(Head(tokens), LAMBDA lineTokens :
             IF Len(lineTokens) < 3
             THEN Result(mount, Nil, TRUE, w, <<>>)
             ELSE Bind(GetLogicalVolumePath(w, lineTokens[1]), LAMBDA lv :
                      IF lv.panic
                      THEN Result(mount, Nil, TRUE, lv.w, lv.ran)
                      ELSE Bind(DiskUsage(lv.w, mountPoint_), LAMBDA du :
                               Bind(GetMountRows(du.w,
                                                 [Path |-> lineTokens[2],
                                                  Device |-> lineTokens[1],
                                                  LVPath |-> lv.val,
                                                  FileSystem |-> lineTokens[3],
                                                  IsMounted |-> TRUE,
                                                  DiskUsage |-> du.val],
                                                 Tail(tokens), mountPoint_),
                                    LAMBDA rest :
                                        Result(rest.val, Nil, rest.panic, rest.w,
                                               lv.ran \o du.ran \o rest.ran)))))

GetMount(w, mountPoint_) ==
    Bind(commandOutput(w, Text("grep", <<mountPoint_, MtabFile>>)), LAMBDA c :
        Bind(outputTokens(c.out, c.err), LAMBDA tokens :
            IF tokens.err # Nil
            THEN Result(Unmounted(mountPoint_), Nil, FALSE, c.w, c.ran)
            ELSE Bind(GetMountRows(c.w, Unmounted(mountPoint_), tokens.val, mountPoint_),
                      LAMBDA rows : Result(rows.val, Nil, rows.panic, rows.w, c.ran \o rows.ran))))

\* a variant without the check of the volume name
MountLV_Unchecked(w, mountPoint_, volumeName) ==
    Bind(commandOutput(w, Text("mount", <<volumeName, mountPoint_>>)), LAMBDA c :
        IF c.err # Nil
        THEN Result(Unmounted(mountPoint_), c.err, FALSE, c.w, c.ran)
        ELSE Bind(GetMount(c.w, mountPoint_), LAMBDA m :
                 Result(m.val, m.err, m.panic, m.w, c.ran \o m.ran)))

MountLV(w, mountPoint_, volumeName) ==
    IF volumeName = <<>>
    THEN Result(Unmounted(mountPoint_), "Empty columeName in MountLV", FALSE, w, <<>>)
    ELSE Bind(commandOutput(w, Text("mount", <<volumeName, mountPoint_>>)), LAMBDA c :
             IF c.err # Nil
             THEN Result(Unmounted(mountPoint_), c.err, FALSE, c.w, c.ran)
             ELSE Bind(GetMount(c.w, mountPoint_), LAMBDA m :
                      Result(m.val, m.err, m.panic, m.w, c.ran \o m.ran)))

Unmount(w, mountPoint_) ==
    Bind(commandOutput(w, Text("umount", <<mountPoint_>>)), LAMBDA c :
        IF c.err # Nil
        THEN Result(Unmounted(mountPoint_), c.err, FALSE, c.w, c.ran)
        ELSE Bind(GetMount(c.w, mountPoint_), LAMBDA m :
                 Result(m.val, m.err, m.panic, m.w, c.ran \o m.ran)))

\* config.Config: the service commands and the snapshot host commands
MySQLServiceStatusCommand == Text("service", << <<"status">> >>)
MySQLServiceStopCommand == Text("service", << <<"stop">> >>)
MySQLServiceStartCommand == Text("service", << <<"start">> >>)
AvailableLocalSnapshotHostsCommand == Text("hosts", << <<"--local">> >>)
AvailableSnapshotHostsCommand == Text("hosts", <<>>)

AvailableSnapshots(w, requireLocal) ==
    LET command == IF requireLocal
                   THEN AvailableLocalSnapshotHostsCommand
                   ELSE AvailableSnapshotHostsCommand
    IN  Bind(commandOutput(w, command), LAMBDA c :
            Bind(outputLines(c.out, c.err), LAMBDA hosts :
                Result(hosts.val, hosts.err, FALSE, c.w, c.ran)))

\* a variant that hands the error of the status command on
MySQLRunning_Surfacing(w) ==
    Bind(commandOutput(w, MySQLServiceStatusCommand), LAMBDA c :
        Result(c.err = Nil, c.err, FALSE, c.w, c.ran))

MySQLRunning(w) ==
    Bind(commandOutput(w, MySQLServiceStatusCommand), LAMBDA c :
        Result(c.err = Nil, Nil, FALSE, c.w, c.ran))

MySQLStop(w) ==
    Bind(commandOutput(w, MySQLServiceStopCommand), LAMBDA c :
        Result(c.err = Nil, c.err, FALSE, c.w, c.ran))

MySQLStart(w) ==
    Bind(commandOutput(w, MySQLServiceStartCommand), LAMBDA c :
        Result(c.err = Nil, c.err, FALSE, c.w, c.ran))

(***************************************************************************)
(* http: the token check and the registered handlers.  Every action is one *)
(* request served by one handler, from its arrival to its answer.          *)
(***************************************************************************)

\* agent.ProcessToken.Hash, and the tokens a request may carry ("" for none)
ProcessToken == "good"
Tokens == {"good", "bad", ""}

SnapshotVolumesFilter == <<"b">>
LvParams == {<<>>, <<"/", "v">>, <<"/", "u">>, <<"/", "w">>}
PathParams == {<<>>, <<"/", "s">>, <<"/", "n">>}

\* RegisterRequests: the routes and the handler of each
Routes ==
    [r \in {"/api/hostname", "/api/lvs", "/api/lvs/:pattern", "/api/lvs-snapshots",
            "/api/lv", "/api/lv/:lv", "/api/mount", "/api/mountlv", "/api/umount",
            "/api/du", "/api/available-snapshots-local", "/api/available-snapshots",
            "/api/mysql-status", "/api/mysql-stop", "/api/mysql-start"} |->
        CASE r = "/api/hostname" -> "Hostname"
          [] r \in {"/api/lvs", "/api/lvs/:pattern"} -> "ListLogicalVolumes"
          [] r = "/api/lvs-snapshots" -> "ListSnapshotsLogicalVolumes"
          [] r \in {"/api/lv", "/api/lv/:lv"} -> "LogicalVolume"
          [] r = "/api/mount" -> "GetMount"
          [] r = "/api/mountlv" -> "MountLV"
          [] r = "/api/umount" -> "Unmount"
          [] r = "/api/du" -> "DiskUsage"
          [] r = "/api/available-snapshots-local" -> "AvailableLocalSnapshots"
          [] r = "/api/available-snapshots" -> "AvailableSnapshots"
          [] r = "/api/mysql-status" -> "MySQLRunning"
          [] r = "/api/mysql-stop" -> "MySQLStop"
          [] r = "/api/mysql-start" -> "MySQLStart"]

RoutesTo(handler) == {r \in DOMAIN Routes : Routes[r] = handler}

\* a variant that lets every token pass
validateToken_Any(token) == Nil

validateToken(token) == IF token = ProcessToken THEN Nil ELSE "Invalid token"

\* the part of the host the programs change
World == [mtab |-> mtab, mysqlUp |-> mysqlUp]

ErrorResponse(message) == [Code |-> "ERROR", Message |-> message]

\* what a handler does with the results of the operation op it called: a 500 and
\* an ERROR response for an error, a 200 and the value otherwise; a panic is caught
\* by martini's recovery, which answers 500
Answer(op, As(_), result) ==
    Bind(result, LAMBDA r :
        [status |-> IF r.panic \/ r.err # Nil THEN 500 ELSE 200,
         body |-> IF r.panic
                  THEN [Code |-> "PANIC", Message |-> "index out of range"]
                  ELSE IF r.err # Nil THEN ErrorResponse(r.err) ELSE As(r.val),
         op |-> op, ran |-> r.ran, val |-> As(r.val), err |-> r.err, panic |-> r.panic,
         w |-> r.w])

\* the first lines of every handler but Hostname: a token that does not validate
\* is answered at once, and reply, the rest of the handler, does not happen
Validated(token, reply) ==
    IF validateToken(token) # Nil
    THEN [status |-> 500, body |-> ErrorResponse(validateToken(token)),
          op |-> "none", ran |-> <<>>, val |-> Nothing, err |-> validateToken(token),
          panic |-> FALSE, w |-> World]
    ELSE reply

NoTrip == [phase |-> "", lv |-> <<>>]

\* how far the requests are into: mount succeeded, GetMount, umount succeeded,
\* GetMount; any other request starts over
NextTrip(handler, lv, reply) ==
    LET ranOk == reply.ran # <<>> /\ reply.ran[1].err = Nil
    IN  CASE handler = "MountLV" /\ reply.op # "none" /\ ranOk -> [phase |-> "M", lv |-> lv]
          [] handler = "GetMount" /\ reply.op # "none" /\ trip.phase = "M" ->
                 [phase |-> "MG", lv |-> trip.lv]
          [] handler = "Unmount" /\ reply.op # "none" /\ ranOk /\ trip.phase \in {"M", "MG"} ->
                 [phase |-> "MGU", lv |-> trip.lv]
          [] handler = "GetMount" /\ reply.op # "none" /\ trip.phase = "MGU" ->
                 [phase |-> "MGUG", lv |-> trip.lv]
          [] OTHER -> NoTrip

\* one request served: the host as the handler leaves it, and the record of it
Serve(route, token, lv, answer) ==
    \E reply \in {answer} :
    /\ mtab' = reply.w.mtab
    /\ mysqlUp' = reply.w.mysqlUp
    /\ last' = [route |-> route, handler |-> Routes[route], token |-> token, lv |-> lv,
                status |-> reply.status, body |-> reply.body, op |-> reply.op,
                ran |-> reply.ran, val |-> reply.val, err |-> reply.err,
                panic |-> reply.panic]
    /\ trip' = NextTrip(Routes[route], lv, reply)
    /\ UNCHANGED <<mountPoint, missing, fn, arg, ret>>

HttpHostname ==
    \E route \in RoutesTo("Hostname"), token \in Tokens, err \in {Nil, "hostname: failed"} :
        Serve(route, token, <<>>,
              Answer("os.Hostname", AsHostname, Result(<<"h">>, err, FALSE, World, <<>>)))

HttpListLogicalVolumes ==
    \E route \in RoutesTo("ListLogicalVolumes"), token \in Tokens :
        \E pattern \in IF route = "/api/lvs" THEN {<<>>} ELSE {<<"a">>, <<"b">>} :
            Serve(route, token, <<>>,
                  Validated(token, Answer("LogicalVolumes", AsVolumes, LogicalVolumes(World, <<>>, pattern))))

HttpListSnapshotsLogicalVolumes ==
    \E route \in RoutesTo("ListSnapshotsLogicalVolumes"), token \in Tokens :
        Serve(route, token, <<>>,
              Validated(token, Answer("LogicalVolumes", AsVolumes,
                                      LogicalVolumes(World, <<>>, SnapshotVolumesFilter))))

HttpLogicalVolume ==
    \E route \in RoutesTo("LogicalVolume"), token \in Tokens, query \in LvParams :
        \E param \in IF route = "/api/lv" THEN {<<>>} ELSE LvParams \ {<<>>} :
            LET lv == IF param = <<>> THEN query ELSE param
            IN  Serve(route, token, lv,
                      Validated(token, Answer("LogicalVolumes", AsVolumes, LogicalVolumes(World, lv, <<>>))))

HttpGetMount ==
    \E route \in RoutesTo("GetMount"), token \in Tokens :
        Serve(route, token, <<>>,
              Validated(token, Answer("GetMount", AsMount, GetMount(World, mountPoint))))

HttpMountLV ==
    /\ Len(mtab) < MaxMounts
    /\ \E route \in RoutesTo("MountLV"), token \in Tokens, lv \in LvParams :
           Serve(route, token, lv,
                 Validated(token, Answer("MountLV", AsMount, MountLV(World, mountPoint, lv))))

HttpUnmount ==
    \E route \in RoutesTo("Unmount"), token \in Tokens :
        Serve(route, token, <<>>,
              Validated(token, Answer("Unmount", AsMount, Unmount(World, mountPoint))))

HttpDiskUsage ==
    \E route \in RoutesTo("DiskUsage"), token \in Tokens, path \in PathParams :
        Serve(route, token, path,
              Validated(token, Answer("DiskUsage", AsBytes, DiskUsage(World, path))))

HttpAvailableLocalSnapshots ==
    \E route \in RoutesTo("AvailableLocalSnapshots"), token \in Tokens :
        Serve(route, token, <<>>,
              Validated(token, Answer("AvailableSnapshots", AsHosts, AvailableSnapshots(World, TRUE))))

HttpAvailableSnapshots ==
    \E route \in RoutesTo("AvailableSnapshots"), token \in Tokens :
        Serve(route, token, <<>>,
              Validated(token, Answer("AvailableSnapshots", AsHosts, AvailableSnapshots(World, FALSE))))

HttpMySQLRunning ==
    \E route \in RoutesTo("MySQLRunning"), token \in Tokens :
        Serve(route, token, <<>>,
              Validated(token, Answer("MySQLRunning", AsBool, MySQLRunning(World))))

HttpMySQLStop ==
    \E route \in RoutesTo("MySQLStop"), token \in Tokens :
        Serve(route, token, <<>>,
              Validated(token, Answer("MySQLStop", AsBool, MySQLStop(World))))

HttpMySQLStart ==
    \E route \in RoutesTo("MySQLStart"), token \in Tokens :
        Serve(route, token, <<>>,
              Validated(token, Answer("MySQLStart", AsBool, MySQLStart(World))))

NoRequest ==
    [route |-> "", handler |-> "", token |-> "", lv |-> <<>>, status |-> 0, body |-> Nothing,
     op |-> "none", ran |-> <<>>, val |-> Nothing, err |-> Nil, panic |-> FALSE]

Init ==
    /\ TextInit
    /\ mountPoint \in MountPoints
    /\ missing \in {{}, {"grep"}, {"service"}}
    /\ mtab \in {<<>>, <<OtherMount>>}
    /\ mysqlUp \in BOOLEAN
    /\ last = NoRequest
    /\ trip = NoTrip

Next ==
    \/ HttpHostname
    \/ HttpListLogicalVolumes
    \/ HttpListSnapshotsLogicalVolumes
    \/ HttpLogicalVolume
    \/ HttpGetMount
    \/ HttpMountLV
    \/ HttpUnmount
    \/ HttpDiskUsage
    \/ HttpAvailableLocalSnapshots
    \/ HttpAvailableSnapshots
    \/ HttpMySQLRunning
    \/ HttpMySQLStop
    \/ HttpMySQLStart

Spec == Init /\ [][Next]_vars

\* the same agent on a host where every program is installed
InitInstalled == Init /\ missing = {}

SpecInstalled == InitInstalled /\ [][Next]_vars

(***************************************************************************)
(* Properties of the agent on the host                                     *)
(***************************************************************************)

NotStarted == "executable file not found in $PATH"

\* the last request passed the token check and called the osagent operation op
Called(op) == last.op = op

IsTarget(path) == \E i \in 1..Len(mtab) : mtab[i].path = path

\* C1: when the mount command succeeds, MountLV(p, v) followed at once by
\* GetMount(p) reports IsMounted = true and Device = v; when a following Unmount(p)
\* succeeds, the GetMount(p) after it reports IsMounted = false.
C1_RoundTrip ==
    /\ trip.phase = "MG" => last.val.Mount.IsMounted /\ last.val.Mount.Device = trip.lv
    /\ trip.phase = "MGUG" => ~last.val.Mount.IsMounted

\* C2: for every mount point that is no mount target in /etc/mtab, whatever else
\* is mounted, GetMount returns IsMounted = false, an empty Device, an empty
\* FileSystem and a nil error.
C2_AbsentIsUnmounted ==
    last.handler = "GetMount" /\ Called("GetMount") /\ ~IsTarget(mountPoint)
        => /\ ~last.panic
           /\ last.err = Nil
           /\ ~last.val.Mount.IsMounted
           /\ last.val.Mount.Device = <<>>
           /\ last.val.Mount.FileSystem = <<>>

\* C3: MountLV(mountPoint, "") returns an error for every mountPoint, runs no
\* external command (no mount, no lookup in /etc/mtab), and its Mount has
\* IsMounted = false.
C3_EmptyVolumeName ==
    last.handler = "MountLV" /\ Called("MountLV") /\ last.lv = <<>>
        => /\ last.err # Nil
           /\ last.ran = <<>>
           /\ ~last.val.Mount.IsMounted
           /\ last.status = 500

C3_Witness ==
    /\ last.handler = "MountLV"
    /\ Called("MountLV")
    /\ last.lv = <<>>
    /\ last.err = "Empty columeName in MountLV"
    /\ last.val.Mount = Unmounted(mountPoint)

\* C4: MySQLRunning returns (true, nil) when the status command exits with status
\* zero and (false, nil) when it exits non-zero; it never returns a non-nil error.
C4_StatusNeverError ==
    last.handler = "MySQLRunning" /\ Called("MySQLRunning")
        => /\ last.err = Nil
           /\ ~last.panic
           /\ Len(last.ran) = 1
           /\ last.ran[1].name = "service"
           /\ last.ran[1].err = Nil => last.val.Bool = TRUE
           /\ last.ran[1].err # Nil => last.val.Bool = FALSE
           /\ "service" \notin missing => last.val.Bool = mysqlUp

C4_Witness ==
    /\ last.handler = "MySQLRunning"
    /\ Called("MySQLRunning")
    /\ last.ran[1].err = "exit status 3"
    /\ last.val.Bool = FALSE
    /\ last.err = Nil
    /\ last.status = 200

\* C5: for GetMount and MySQLRunning, a command that cannot be found or started
\* is returned to the caller as an error, and is not reported as the negative
\* result (IsMounted = false, or false, with a nil error).
C5_StartFailureIsError ==
    (/\ last.handler \in {"GetMount", "MySQLRunning"}
     /\ Called(last.handler)
     /\ last.ran[1].err = NotStarted)
        => last.err # Nil

\* C8: no operation is invoked and no external command is run for a request whose
\* token is not the process token: every registered handler validates the token
\* before it calls its operation and answers an invalid token with a 500 ERROR.
C8_EveryHandlerValidates ==
    last.handler # "" /\ last.token # ProcessToken
        => /\ last.status = 500
           /\ last.body = ErrorResponse("Invalid token")
           /\ last.op = "none"
           /\ last.ran = <<>>

\* C8 amended: every registered handler but Hostname validates the token before
\* it calls its operation, invokes no operation and runs no external command for a
\* token that is not the process token, and answers it with a 500 ERROR; Hostname
\* checks no token and answers with the host name, running no external command.
C8_EveryHandlerButHostnameValidates ==
    /\ last.handler \notin {"", "Hostname"} /\ last.token # ProcessToken
           => /\ last.status = 500
              /\ last.body = ErrorResponse("Invalid token")
              /\ last.op = "none"
              /\ last.ran = <<>>
    /\ last.handler = "Hostname" => last.op = "os.Hostname" /\ last.ran = <<>>

C8_Witness ==
    /\ last.handler = "Unmount"
    /\ last.token = "bad"
    /\ last.status = 500
    /\ last.ran = <<>>
    /\ IsTarget(mountPoint)

====
